---- MODULE Spec2Model ----
(***************************************************************************)
(* Model of the leaderboard page component SmashTournamentELO              *)
(* (src/src/app/page.tsx): the percentile tier classifier, the derived     *)
(* ranking and tier buckets, and the refresh scheduler built from the      *)
(* mount effect, its two interval timers and the two asynchronous fetches. *)
(***************************************************************************)
EXTENDS Integers, Sequences, FiniteSets, TLC

(***************************************************************************)
(* Bounds of the model.                                                    *)
(***************************************************************************)
\* longest population enumerated for the classifier
MaxPlayers == 4
\* longest participants list enumerated for the match history
MaxParticipants == 5
\* largest value of a player's counter enumerated for the statistics
MaxCount == 2
\* how many times the 30 s refresh timer may fire in one behaviour
MaxRefreshes == 1

(***************************************************************************)
(* Program constants.                                                      *)
(***************************************************************************)
\* useState<number>(30), setCountdown(30), return 30
CountdownStart == 30
\* matches.slice(0, 20)
MatchHistoryLimit == 20

\* ELO values the classifier is enumerated over: negative, zero, positive
\* values below, between and above the fixed default thresholds.
Elos == {-100, 0, 900, 1500, 2100}

\* the ten players of the specification's scenario
ScenarioElos == <<2000, 1700, 1500, 1300, 1100, 900, 700, 500, 300, 100>>

\* twenty players of distinct ELO, 2900 down to 1000: a population of which
\* 15, 30, 50, 75 and 90 percent are whole numbers of players
PercentageElos == [i \in 1..20 |-> 3000 - 100 * i]

\* type Tier
Tiers == {"S", "A", "B", "C", "D", "E"}

\* JavaScript's undefined (the value of an out-of-range array lookup, and of
\* a field the response does not carry)
Undefined == [undefined |-> TRUE]

\* JavaScript's null
Null == [null |-> TRUE]

\* A Date, by the ordinal of its instant
Date(n) == [time |-> n]

Min(a, b) == IF a <= b THEN a ELSE b

(***************************************************************************)
(* calculateTierThresholds (page.tsx 121-153)                              *)
(***************************************************************************)
\* the fixed thresholds: the return value for an empty list, and the
\* right-hand sides of the || operators
DefaultThresholds == [S |-> 2000, A |-> 1800, B |-> 1600, C |-> 1400, D |-> 1200]

\* tierPercentages, in hundredths (0.15 is 15)
tierPercentages == [S |-> 15, A |-> 30, B |-> 50, C |-> 75, D |-> 90]

\* arr[index] of a JavaScript array (0-based); undefined out of range
ArrayAt(arr, index) ==
    IF index + 1 \in DOMAIN arr THEN arr[index + 1] ELSE Undefined

\* getPlayerAtPercentile: Math.min(length - 1, Math.floor(percentile * total))
getPlayerAtPercentile(sortedList, percentile) ==
    LET totalPlayers == Len(sortedList)
        index == Min(Len(sortedList) - 1, (percentile * totalPlayers) \div 100)
    IN  ArrayAt(sortedList, index)

\* player?.elo || fallback : the fallback is taken when the lookup is
\* undefined and also when the elo is falsy, that is 0
EloOrDefault(player, fallback) ==
    IF player = Undefined THEN fallback
    ELSE IF player.elo = 0 THEN fallback
    ELSE player.elo

\* the empty list given a last default other than 1200
calculateTierThresholdsWrongDefault(sortedList) ==
    IF Len(sortedList) = 0
    THEN [S |-> 2000, A |-> 1800, B |-> 1600, C |-> 1400, D |-> 1000]
    ELSE [S |-> EloOrDefault(ArrayAt(sortedList, 0), DefaultThresholds.S),
          A |-> EloOrDefault(getPlayerAtPercentile(sortedList, tierPercentages.S),
                             DefaultThresholds.A),
          B |-> EloOrDefault(getPlayerAtPercentile(sortedList, tierPercentages.A),
                             DefaultThresholds.B),
          C |-> EloOrDefault(getPlayerAtPercentile(sortedList, tierPercentages.B),
                             DefaultThresholds.C),
          D |-> EloOrDefault(getPlayerAtPercentile(sortedList, tierPercentages.C),
                             DefaultThresholds.D)]

\* each tier's threshold looked up with that tier's own percentage
calculateTierThresholdsOwnPercent(sortedList) ==
    IF Len(sortedList) = 0
    THEN DefaultThresholds
    ELSE [S |-> EloOrDefault(ArrayAt(sortedList, 0), DefaultThresholds.S),
          A |-> EloOrDefault(getPlayerAtPercentile(sortedList, tierPercentages.A),
                             DefaultThresholds.A),
          B |-> EloOrDefault(getPlayerAtPercentile(sortedList, tierPercentages.B),
                             DefaultThresholds.B),
          C |-> EloOrDefault(getPlayerAtPercentile(sortedList, tierPercentages.C),
                             DefaultThresholds.C),
          D |-> EloOrDefault(getPlayerAtPercentile(sortedList, tierPercentages.D),
                             DefaultThresholds.D)]

calculateTierThresholds(sortedList) ==
    IF Len(sortedList) = 0
    THEN DefaultThresholds
    ELSE [S |-> EloOrDefault(ArrayAt(sortedList, 0), DefaultThresholds.S),
          A |-> EloOrDefault(getPlayerAtPercentile(sortedList, tierPercentages.S),
                             DefaultThresholds.A),
          B |-> EloOrDefault(getPlayerAtPercentile(sortedList, tierPercentages.A),
                             DefaultThresholds.B),
          C |-> EloOrDefault(getPlayerAtPercentile(sortedList, tierPercentages.B),
                             DefaultThresholds.C),
          D |-> EloOrDefault(getPlayerAtPercentile(sortedList, tierPercentages.C),
                             DefaultThresholds.D)]

(***************************************************************************)
(* getTier (page.tsx 256-266)                                              *)
(***************************************************************************)
\* the comparisons strict
getTierStrict(elo, thresholds) ==
    IF elo > thresholds.S THEN "S"
    ELSE IF elo > thresholds.A THEN "A"
    ELSE IF elo > thresholds.B THEN "B"
    ELSE IF elo > thresholds.C THEN "C"
    ELSE IF elo > thresholds.D THEN "D"
    ELSE "E"

getTier(elo, thresholds) ==
    IF elo >= thresholds.S THEN "S"
    ELSE IF elo >= thresholds.A THEN "A"
    ELSE IF elo >= thresholds.B THEN "B"
    ELSE IF elo >= thresholds.C THEN "C"
    ELSE IF elo >= thresholds.D THEN "D"
    ELSE "E"

(***************************************************************************)
(* [...players].sort((a, b) => b.elo - a.elo) (page.tsx 269)               *)
(* Array.prototype.sort is stable: an element is placed after every        *)
(* element already present whose elo is greater than or equal to its own.  *)
(***************************************************************************)
\* an element placed before the elements already present whose elo equals
\* its own
RECURSIVE InsertByEloTiesFirst(_, _)
InsertByEloTiesFirst(sortedList, p) ==
    IF sortedList = <<>> THEN <<p>>
    ELSE IF Head(sortedList).elo - p.elo > 0
         THEN <<Head(sortedList)>> \o InsertByEloTiesFirst(Tail(sortedList), p)
         ELSE <<p>> \o sortedList

RECURSIVE InsertByElo(_, _)
InsertByElo(sortedList, p) ==
    IF sortedList = <<>> THEN <<p>>
    ELSE IF Head(sortedList).elo - p.elo >= 0
         THEN <<Head(sortedList)>> \o InsertByElo(Tail(sortedList), p)
         ELSE <<p>> \o sortedList

RECURSIVE SortByEloDesc(_)
SortByEloDesc(list) ==
    IF list = <<>> THEN <<>>
    ELSE InsertByElo(SortByEloDesc(SubSeq(list, 1, Len(list) - 1)), list[Len(list)])

(***************************************************************************)
(* playersWithMatches (page.tsx 208-212)                                   *)
(***************************************************************************)
\* player.field || 0
FieldOrZero(player, field) ==
    IF field \in DOMAIN player THEN player[field] ELSE 0

\* matches counting the wins only
WithMatchesWinsOnly(player) ==
    [f \in DOMAIN player \cup {"matches"} |->
        IF f = "matches" THEN FieldOrZero(player, "total_wins") ELSE player[f]]

\* { ...player, matches: (total_wins || 0) + (total_losses || 0) }
WithMatches(player) ==
    [f \in DOMAIN player \cup {"matches"} |->
        IF f = "matches"
        THEN FieldOrZero(player, "total_wins") + FieldOrZero(player, "total_losses")
        ELSE player[f]]

playersWithMatches(data) == [i \in DOMAIN data |-> WithMatches(data[i])]

(***************************************************************************)
(* The statistics of a player card (page.tsx 1129-1138).                   *)
(* A quotient is kept exact as numerator and denominator until toFixed     *)
(* turns it into a decimal string, held as its digits: scaled = the number *)
(* times 10^digits, rounded to the nearest integer, the larger on a tie.   *)
(***************************************************************************)
\* the string of a quotient that is Infinity or NaN
NotFinite == [notFinite |-> TRUE]

RECURSIVE Pow10(_)
Pow10(digits) == IF digits = 0 THEN 1 ELSE 10 * Pow10(digits - 1)

\* (num / den).toFixed(digits), for num >= 0 and den >= 0
ToFixed(num, den, digits) ==
    IF den = 0 THEN NotFinite
    ELSE [scaled |-> (2 * num * Pow10(digits) + den) \div (2 * den),
          digits |-> digits]

\* winRate dividing the wins by the losses
winRateOverLosses(player) ==
    IF FieldOrZero(player, "total_wins") # 0
       /\ player.total_wins + FieldOrZero(player, "total_losses") > 0
    THEN [value |-> ToFixed(player.total_wins * 100,
                            FieldOrZero(player, "total_losses"), 1),
          divisors |-> <<FieldOrZero(player, "total_losses")>>]
    ELSE [value |-> [scaled |-> 0, digits |-> 1], divisors |-> <<>>]

\* winRate: the string shown, and the divisors of the divisions performed
\* to compute it; player.total_wins && ... is false when total_wins is
\* missing or 0
winRate(player) ==
    IF FieldOrZero(player, "total_wins") # 0
       /\ player.total_wins + FieldOrZero(player, "total_losses") > 0
    THEN [value |-> ToFixed(player.total_wins * 100,
                            player.total_wins + FieldOrZero(player, "total_losses"),
                            1),
          divisors |-> <<player.total_wins + FieldOrZero(player, "total_losses")>>]
    ELSE [value |-> [scaled |-> 0, digits |-> 1], divisors |-> <<>>]

\* the K/D ratio dividing the knockouts by the falls alone
kdRatioOverFalls(player) ==
    IF FieldOrZero(player, "total_kos") > 0
       /\ FieldOrZero(player, "total_falls") + FieldOrZero(player, "total_sds") > 0
    THEN [value |-> ToFixed(FieldOrZero(player, "total_kos"),
                            FieldOrZero(player, "total_falls"), 2),
          divisors |-> <<FieldOrZero(player, "total_falls")>>]
    ELSE [value |-> [scaled |-> 0, digits |-> 2], divisors |-> <<>>]

\* the K/D ratio of a player card (page.tsx 1284-1293): the string shown,
\* and the divisors of the divisions performed to compute it
kdRatio(player) ==
    IF FieldOrZero(player, "total_kos") > 0
       /\ FieldOrZero(player, "total_falls") + FieldOrZero(player, "total_sds") > 0
    THEN [value |-> ToFixed(FieldOrZero(player, "total_kos"),
                            FieldOrZero(player, "total_falls")
                                + FieldOrZero(player, "total_sds"), 2),
          divisors |-> <<FieldOrZero(player, "total_falls")
                             + FieldOrZero(player, "total_sds")>>]
    ELSE [value |-> [scaled |-> 0, digits |-> 2], divisors |-> <<>>]

(***************************************************************************)
(* tierList (page.tsx 322-335): sortedPlayers.forEach pushes each player   *)
(* to the bucket of its tier.                                              *)
(***************************************************************************)
EmptyTierList == [t \in Tiers |-> <<>>]

\* a forEach that pushes no player of tier E
RECURSIVE PushAllButE(_, _, _)
PushAllButE(buckets, sortedList, thresholds) ==
    IF sortedList = <<>> THEN buckets
    ELSE LET player == Head(sortedList)
             tier == getTier(player.elo, thresholds)
         IN  PushAllButE(IF tier = "E" THEN buckets
                         ELSE [buckets EXCEPT ![tier] = Append(@, player)],
                         Tail(sortedList), thresholds)

\* a forEach that puts each player at the front of its bucket
RECURSIVE PushAllAtFront(_, _, _)
PushAllAtFront(buckets, sortedList, thresholds) ==
    IF sortedList = <<>> THEN buckets
    ELSE LET player == Head(sortedList)
             tier == getTier(player.elo, thresholds)
         IN  PushAllAtFront([buckets EXCEPT ![tier] = <<player>> \o @],
                            Tail(sortedList), thresholds)

RECURSIVE PushAll(_, _, _)
PushAll(buckets, sortedList, thresholds) ==
    IF sortedList = <<>> THEN buckets
    ELSE LET player == Head(sortedList)
             tier == getTier(player.elo, thresholds)
         IN  PushAll([buckets EXCEPT ![tier] = Append(@, player)],
                     Tail(sortedList), thresholds)

(***************************************************************************)
(* match.participants.sort(...) in the match history (page.tsx 893-900):   *)
(* a stable in-place sort, winners first, of the participants array of     *)
(* each of the first 20 matches of the matches state.                      *)
(***************************************************************************)
\* a comparator with no result 0: -1 when a has won, 1 otherwise
CompareWinnersNoTie(a, b) == IF a.has_won THEN -1 ELSE 1

\* the comparator: -1, 1 or 0
CompareWinners(a, b) ==
    IF a.has_won /\ ~b.has_won THEN -1
    ELSE IF ~a.has_won /\ b.has_won THEN 1
    ELSE 0

RECURSIVE InsertParticipant(_, _)
InsertParticipant(sortedList, p) ==
    IF sortedList = <<>> THEN <<p>>
    ELSE IF CompareWinners(Head(sortedList), p) <= 0
         THEN <<Head(sortedList)>> \o InsertParticipant(Tail(sortedList), p)
         ELSE <<p>> \o sortedList

RECURSIVE SortParticipants(_)
SortParticipants(list) ==
    IF list = <<>> THEN <<>>
    ELSE InsertParticipant(SortParticipants(SubSeq(list, 1, Len(list) - 1)),
                           list[Len(list)])

\* What one render of the component leaves in the matches state: the match
\* history is rendered when loading is false and the matches tab is active,
\* and Array.prototype.sort sorts the state's own participants arrays.
RenderMatches(matchList, tab, isLoading) ==
    IF ~isLoading /\ tab = "matches"
    THEN [i \in DOMAIN matchList |->
            IF i <= MatchHistoryLimit
            THEN [matchList[i] EXCEPT !.participants = SortParticipants(@)]
            ELSE matchList[i]]
    ELSE matchList

(***************************************************************************)
(* Responses of the two endpoints.                                         *)
(***************************************************************************)
\* GET /api/players: optional counters may be missing
PlayerResponses ==
    { << [id |-> 1, elo |-> 1500],
         [id |-> 2, elo |-> 2100, total_wins |-> 3, total_losses |-> 1] >>,
      << [id |-> 2, elo |-> 900, total_wins |-> 3],
         [id |-> 1, elo |-> 1500],
         [id |-> 3, elo |-> 0, total_losses |-> 2] >> }

\* GET /api/matches
MatchResponses ==
    { <<>>,
      << [id |-> 1,
          participants |-> << [id |-> 1, has_won |-> FALSE],
                              [id |-> 2, has_won |-> TRUE],
                              [id |-> 3, has_won |-> FALSE] >>] >> }

\* window.location.hash when a players response is processed: whether it
\* starts with "#player-"
Hashes == {"", "#player-1"}

HashIsPlayer(hash) == hash = "#player-1"

Tabs == {"tiers", "rankings", "matches", "players"}

\* the string setError is given in the catch block of fetchPlayers
ErrorMessage == [message |-> "Failed to load players. Please try again later."]

(***************************************************************************)
(* State of the component.                                                 *)
(***************************************************************************)
VARIABLES
    players,        \* useState<ExtendedPlayer[]>([])
    matches,        \* useState<Match[]>([])
    activeTab,      \* useState("rankings")
    loading,        \* useState<boolean>(true)
    error,          \* useState<string | null>(null)
    lastUpdated,    \* useState<Date | null>(null): ordinal of the instant
    refreshing,     \* useState<boolean>(false)
    countdown,      \* useState<number>(30)
    phase,          \* "created", "mounted" (both intervals set), "unmounted"
    refreshes,      \* how many times refreshInterval has fired
    pendingPlayers, \* calls of fetchPlayers awaiting their response
    pendingMatches, \* number of calls of fetchMatches awaiting their response
    lastCompletion, \* history: how the fetch that completed last, while
                    \* the component was mounted, ended
    failedSince,    \* history: a players fetch failed, none succeeded since
    lastResponse,   \* history: the data of the players response that
                    \* arrived last while the component was mounted
    probe           \* a classification: elo, thresholds and getTier's result

vars == <<players, matches, activeTab, loading, error, lastUpdated, refreshing,
          countdown, phase, refreshes, pendingPlayers, pendingMatches,
          lastCompletion, failedSince, lastResponse, probe>>

model == <<players, matches, activeTab, loading, error, lastUpdated,
           refreshing, countdown>>

\* Derived on every render (page.tsx 268-272, 322-335)
sortedPlayers == SortByEloDesc(players)

tierThresholds == calculateTierThresholds(sortedPlayers)

tierList == PushAll(EmptyTierList, sortedPlayers, tierThresholds)

\* #{index + 1} in a row of the rankings (page.tsx 563-578); index counts
\* from 0
rankOf(index) == index + 1

\* the tier list as rendered (page.tsx 732-734): the buckets in the order
\* S, A, B, C, D, E
TierOrder == <<"S", "A", "B", "C", "D", "E">>

RECURSIVE ConcatBuckets(_, _)
ConcatBuckets(buckets, order) ==
    IF order = <<>> THEN <<>>
    ELSE buckets[Head(order)] \o ConcatBuckets(buckets, Tail(order))

NoProbe == [none |-> TRUE]


\* the state after the useState initialisers, before the mount effect
Init ==
    /\ players = <<>>
    /\ matches = <<>>
    /\ activeTab = "rankings"
    /\ loading = TRUE
    /\ error = Null
    /\ lastUpdated = Null
    /\ refreshing = FALSE
    /\ countdown = CountdownStart
    /\ phase = "created"
    /\ refreshes = 0
    /\ pendingPlayers = {}
    /\ pendingMatches = 0
    /\ lastCompletion = "none"
    /\ failedSince = FALSE
    /\ lastResponse = <<>>
    /\ probe = NoProbe

(***************************************************************************)
(* fetchPlayers and fetchMatches up to their first await                   *)
(***************************************************************************)
\* a call of fetchPlayers in flight; startPlayers, startLastUpdated and
\* startFailedSince are history: the players list, lastUpdated and
\* failedSince when the call was made
PlayersFetch(id, isBackgroundRefresh) ==
    [id |-> id, bg |-> isBackgroundRefresh,
     startPlayers |-> players, startLastUpdated |-> lastUpdated,
     startFailedSince |-> failedSince]

\* new Date(): an instant later than every earlier one
Now == IF lastUpdated = Null THEN Date(1) ELSE Date(lastUpdated.time + 1)

(***************************************************************************)
(* The mount effect (page.tsx 156-182): fetchPlayers(), fetchMatches(),    *)
(* then the two setInterval calls.                                         *)
(***************************************************************************)
Mount ==
    /\ phase = "created"
    /\ phase' = "mounted"
    /\ loading' = TRUE
    /\ error' = Null
    /\ pendingPlayers' = pendingPlayers \cup {PlayersFetch(0, FALSE)}
    /\ pendingMatches' = pendingMatches + 1
    /\ matches' = RenderMatches(matches, activeTab, TRUE)
    /\ UNCHANGED <<players, activeTab, lastUpdated, refreshing, countdown,
                   refreshes, failedSince, probe, lastCompletion, lastResponse>>

\* the refreshInterval callback of an interval the cleanup did not clear
RefreshTimerFiresNotCleared ==
    /\ phase # "created"
    /\ refreshes < MaxRefreshes
    /\ refreshes' = refreshes + 1
    /\ refreshing' = IF phase = "mounted" THEN TRUE ELSE refreshing
    /\ error' = IF phase = "mounted" THEN Null ELSE error
    /\ pendingPlayers' = pendingPlayers \cup {PlayersFetch(refreshes + 1, TRUE)}
    /\ pendingMatches' = pendingMatches + 1
    /\ countdown' = IF phase = "mounted" THEN CountdownStart ELSE countdown
    /\ matches' = IF phase = "mounted"
                  THEN RenderMatches(matches, activeTab, loading) ELSE matches
    /\ UNCHANGED <<players, activeTab, loading, lastUpdated, phase,
                   failedSince, probe, lastCompletion, lastResponse>>

\* the refreshInterval callback doing nothing while an error is displayed
RefreshTimerFiresUnlessError ==
    /\ phase = "mounted"
    /\ error = Null
    /\ refreshes < MaxRefreshes
    /\ refreshes' = refreshes + 1
    /\ refreshing' = TRUE
    /\ error' = Null
    /\ pendingPlayers' = pendingPlayers \cup {PlayersFetch(refreshes + 1, TRUE)}
    /\ pendingMatches' = pendingMatches + 1
    /\ countdown' = CountdownStart
    /\ matches' = RenderMatches(matches, activeTab, loading)
    /\ UNCHANGED <<players, activeTab, loading, lastUpdated, phase,
                   failedSince, probe, lastCompletion, lastResponse>>

\* the refreshInterval callback calling fetchPlayers() as the mount effect
\* does
RefreshTimerFiresAsInitial ==
    /\ phase = "mounted"
    /\ refreshes < MaxRefreshes
    /\ refreshes' = refreshes + 1
    /\ loading' = TRUE
    /\ error' = Null
    /\ pendingPlayers' = pendingPlayers \cup {PlayersFetch(refreshes + 1, FALSE)}
    /\ pendingMatches' = pendingMatches + 1
    /\ countdown' = CountdownStart
    /\ matches' = RenderMatches(matches, activeTab, TRUE)
    /\ UNCHANGED <<players, activeTab, refreshing, lastUpdated, phase,
                   failedSince, probe, lastCompletion, lastResponse>>

\* the refreshInterval callback (page.tsx 161-165)
RefreshTimerFires ==
    /\ phase = "mounted"
    /\ refreshes < MaxRefreshes
    /\ refreshes' = refreshes + 1
    /\ refreshing' = TRUE
    /\ error' = Null
    /\ pendingPlayers' = pendingPlayers \cup {PlayersFetch(refreshes + 1, TRUE)}
    /\ pendingMatches' = pendingMatches + 1
    /\ countdown' = CountdownStart
    /\ matches' = RenderMatches(matches, activeTab, loading)
    /\ UNCHANGED <<players, activeTab, loading, lastUpdated, phase,
                   failedSince, probe, lastCompletion, lastResponse>>

\* the countdownInterval callback restarting from 30 only below 1
CountdownTickToZero ==
    /\ phase = "mounted"
    /\ countdown' = IF countdown <= 0 THEN CountdownStart ELSE countdown - 1
    /\ matches' = RenderMatches(matches, activeTab, loading)
    /\ UNCHANGED <<players, activeTab, loading, error, lastUpdated, refreshing,
                   phase, refreshes, pendingPlayers, pendingMatches,
                   failedSince, probe, lastCompletion, lastResponse>>

\* the countdownInterval callback (page.tsx 168-175)
CountdownTick ==
    /\ phase = "mounted"
    /\ countdown' = IF countdown <= 1 THEN CountdownStart ELSE countdown - 1
    /\ matches' = RenderMatches(matches, activeTab, loading)
    /\ UNCHANGED <<players, activeTab, loading, error, lastUpdated, refreshing,
                   phase, refreshes, pendingPlayers, pendingMatches,
                   failedSince, probe, lastCompletion, lastResponse>>

\* the effect's cleanup (page.tsx 178-181): both intervals are cleared
Unmount ==
    /\ phase = "mounted"
    /\ phase' = "unmounted"
    /\ UNCHANGED <<model, refreshes, pendingPlayers, pendingMatches,
                   failedSince, probe, lastCompletion, lastResponse>>

(***************************************************************************)
(* fetchPlayers after its awaits (page.tsx 192-238). A state setter called *)
(* once the component is unmounted changes nothing.                        *)
(***************************************************************************)
\* the try block applying a response only when no other response was
\* applied since its call was made
PlayersFetchSucceedsIfLatest(f, data, hash) ==
    /\ f \in pendingPlayers
    /\ pendingPlayers' = pendingPlayers \ {f}
    /\ IF phase = "mounted"
       THEN /\ lastCompletion' = IF f.bg THEN "refreshOk" ELSE "initialOk"
            /\ failedSince' = FALSE
            /\ lastResponse' = data
            /\ players' = IF f.startLastUpdated = lastUpdated
                          THEN playersWithMatches(data) ELSE players
            /\ lastUpdated' = Now
            /\ activeTab' = IF HashIsPlayer(hash) THEN "players" ELSE activeTab
            /\ loading' = IF ~f.bg THEN FALSE ELSE loading
            /\ refreshing' = IF ~f.bg THEN refreshing ELSE FALSE
            /\ matches' = RenderMatches(matches, activeTab', loading')
            /\ UNCHANGED <<error, countdown>>
       ELSE UNCHANGED <<model, lastCompletion, failedSince, lastResponse>>
    /\ UNCHANGED <<phase, refreshes, pendingMatches, probe>>

\* the try and finally blocks run against state that outlives the component
PlayersFetchSucceedsAfterUnmount(f, data, hash) ==
    /\ f \in pendingPlayers
    /\ pendingPlayers' = pendingPlayers \ {f}
    /\ lastCompletion' = IF phase # "mounted" THEN lastCompletion
                         ELSE IF f.bg THEN "refreshOk" ELSE "initialOk"
    /\ failedSince' = IF phase = "mounted" THEN FALSE ELSE failedSince
    /\ lastResponse' = IF phase = "mounted" THEN data ELSE lastResponse
    /\ players' = playersWithMatches(data)
    /\ lastUpdated' = Now
    /\ activeTab' = IF HashIsPlayer(hash) THEN "players" ELSE activeTab
    /\ loading' = IF ~f.bg THEN FALSE ELSE loading
    /\ refreshing' = IF ~f.bg THEN refreshing ELSE FALSE
    /\ matches' = RenderMatches(matches, activeTab', loading')
    /\ UNCHANGED <<error, countdown>>
    /\ UNCHANGED <<phase, refreshes, pendingMatches, probe>>

\* the try block ran to its end, then the finally block
PlayersFetchSucceeds(f, data, hash) ==
    /\ f \in pendingPlayers
    /\ pendingPlayers' = pendingPlayers \ {f}
    /\ IF phase = "mounted"
       THEN /\ lastCompletion' = IF f.bg THEN "refreshOk" ELSE "initialOk"
            /\ failedSince' = FALSE
            /\ lastResponse' = data
            /\ players' = playersWithMatches(data)
            /\ lastUpdated' = Now
            /\ activeTab' = IF HashIsPlayer(hash) THEN "players" ELSE activeTab
            /\ loading' = IF ~f.bg THEN FALSE ELSE loading
            /\ refreshing' = IF ~f.bg THEN refreshing ELSE FALSE
            /\ matches' = RenderMatches(matches, activeTab', loading')
            /\ UNCHANGED <<error, countdown>>
       ELSE UNCHANGED <<model, lastCompletion, failedSince, lastResponse>>
    /\ UNCHANGED <<phase, refreshes, pendingMatches, probe>>

\* the catch block also emptying the list
PlayersFetchFailsClearsList(f) ==
    /\ f \in pendingPlayers
    /\ pendingPlayers' = pendingPlayers \ {f}
    /\ IF phase = "mounted"
       THEN /\ lastCompletion' = IF f.bg THEN "refreshFailed" ELSE "initialFailed"
            /\ failedSince' = TRUE
            /\ error' = ErrorMessage
            /\ players' = <<>>
            /\ loading' = IF ~f.bg THEN FALSE ELSE loading
            /\ refreshing' = IF ~f.bg THEN refreshing ELSE FALSE
            /\ matches' = RenderMatches(matches, activeTab, loading')
            /\ UNCHANGED <<activeTab, lastUpdated, countdown, lastResponse>>
       ELSE UNCHANGED <<model, lastCompletion, failedSince, lastResponse>>
    /\ UNCHANGED <<phase, refreshes, pendingMatches, probe>>

\* the response was not ok or an await threw: the catch block, then the
\* finally block
PlayersFetchFails(f) ==
    /\ f \in pendingPlayers
    /\ pendingPlayers' = pendingPlayers \ {f}
    /\ IF phase = "mounted"
       THEN /\ lastCompletion' = IF f.bg THEN "refreshFailed" ELSE "initialFailed"
            /\ failedSince' = TRUE
            /\ error' = ErrorMessage
            /\ loading' = IF ~f.bg THEN FALSE ELSE loading
            /\ refreshing' = IF ~f.bg THEN refreshing ELSE FALSE
            /\ matches' = RenderMatches(matches, activeTab, loading')
            /\ UNCHANGED <<players, activeTab, lastUpdated, countdown,
                           lastResponse>>
       ELSE UNCHANGED <<model, lastCompletion, failedSince, lastResponse>>
    /\ UNCHANGED <<phase, refreshes, pendingMatches, probe>>

(***************************************************************************)
(* fetchMatches after its awaits (page.tsx 241-253)                        *)
(***************************************************************************)
MatchesFetchSucceeds(data) ==
    /\ pendingMatches > 0
    /\ pendingMatches' = pendingMatches - 1
    /\ IF phase = "mounted"
       THEN /\ lastCompletion' = "matchesOk"
            /\ matches' = RenderMatches(data, activeTab, loading)
       ELSE UNCHANGED <<matches, lastCompletion>>
    /\ UNCHANGED <<players, activeTab, loading, error, lastUpdated, refreshing,
                   countdown, phase, refreshes, pendingPlayers, failedSince,
                   probe, lastResponse>>

\* the catch block setting the error as fetchPlayers does
MatchesFetchFailsSetsError ==
    /\ pendingMatches > 0
    /\ pendingMatches' = pendingMatches - 1
    /\ lastCompletion' = IF phase = "mounted" THEN "matchesFailed"
                                              ELSE lastCompletion
    /\ error' = IF phase = "mounted" THEN ErrorMessage ELSE error
    /\ UNCHANGED <<players, matches, activeTab, loading, lastUpdated,
                   refreshing, countdown, phase, refreshes, pendingPlayers,
                   failedSince, probe, lastResponse>>

\* the catch block only logs
MatchesFetchFails ==
    /\ pendingMatches > 0
    /\ pendingMatches' = pendingMatches - 1
    /\ lastCompletion' = IF phase = "mounted" THEN "matchesFailed"
                                              ELSE lastCompletion
    /\ UNCHANGED <<model, phase, refreshes, pendingPlayers, failedSince, probe,
                   lastResponse>>

(***************************************************************************)
(* The user's handlers.                                                    *)
(***************************************************************************)
\* a tab button's onClick (page.tsx 399-404)
SetActiveTab(tab) ==
    /\ phase = "mounted"
    /\ activeTab' = tab
    /\ matches' = RenderMatches(matches, tab, loading)
    /\ UNCHANGED <<players, loading, error, lastUpdated, refreshing, countdown,
                   phase, refreshes, pendingPlayers, pendingMatches,
                   failedSince, probe, lastCompletion, lastResponse>>

\* handlePlayerClick (page.tsx 96-105), from a row of the rankings or a card
\* of the tier list
handlePlayerClick ==
    /\ phase = "mounted"
    /\ ~loading
    /\ activeTab \in {"rankings", "tiers"}
    /\ players # <<>>
    /\ activeTab' = "players"
    /\ UNCHANGED <<players, matches, loading, error, lastUpdated, refreshing,
                   countdown, phase, refreshes, pendingPlayers, pendingMatches,
                   failedSince, probe, lastCompletion, lastResponse>>

\* the error banner's close button (page.tsx 447-454)
DismissError ==
    /\ phase = "mounted"
    /\ error # Null
    /\ error' = Null
    /\ matches' = RenderMatches(matches, activeTab, loading)
    /\ UNCHANGED <<players, activeTab, loading, lastUpdated, refreshing,
                   countdown, phase, refreshes, pendingPlayers, pendingMatches,
                   failedSince, probe, lastCompletion, lastResponse>>

(***************************************************************************)
(* A call getTier(elo, thresholds) (page.tsx 333, 643, 1128), recorded.    *)
(***************************************************************************)
Classify(elo, thresholds) ==
    /\ probe' = [elo |-> elo, thresholds |-> thresholds,
                 tier |-> getTier(elo, thresholds)]
    /\ UNCHANGED <<model, phase, refreshes, pendingPlayers, pendingMatches,
                   lastCompletion, failedSince, lastResponse>>

Next ==
    \/ Mount
    \/ RefreshTimerFires
    \/ CountdownTick
    \/ Unmount
    \/ \E f \in pendingPlayers, data \in PlayerResponses, hash \in Hashes :
          PlayersFetchSucceeds(f, data, hash)
    \/ \E f \in pendingPlayers : PlayersFetchFails(f)
    \/ \E data \in MatchResponses : MatchesFetchSucceeds(data)
    \/ MatchesFetchFails
    \/ \E tab \in Tabs : SetActiveTab(tab)
    \/ handlePlayerClick
    \/ DismissError

Spec == Init /\ [][Next]_vars

\* The scheduler with its refresh timer fair: setInterval keeps calling the
\* callback every 30 s until the cleanup clears the interval.
LiveSpec == Init /\ [][Next]_vars /\ WF_vars(RefreshTimerFires)

(***************************************************************************)
(* The classifier over every population: the component once its initial    *)
(* players fetch has delivered the population and the matches fetch has    *)
(* failed, and getTier called with the thresholds of that population.      *)
(***************************************************************************)
EloLists ==
    UNION {[1..n -> Elos] : n \in 0..MaxPlayers} \cup {ScenarioElos, PercentageElos}

\* the response body carrying these ELO values, in this order
PopulationResponse(elos) == [i \in DOMAIN elos |-> [id |-> i, elo |-> elos[i]]]

\* ELO values getTier is called with: those of the populations, and the
\* scenario's 1000
ProbeElos == Elos \cup {1000}

TierInit ==
    /\ \E elos \in EloLists :
          /\ lastResponse = PopulationResponse(elos)
          /\ players = playersWithMatches(lastResponse)
    /\ matches = <<>>
    /\ activeTab = "rankings"
    /\ loading = FALSE
    /\ error = Null
    /\ lastUpdated = Date(1)
    /\ refreshing = FALSE
    /\ countdown = CountdownStart
    /\ phase = "mounted"
    /\ refreshes = 0
    /\ pendingPlayers = {}
    /\ pendingMatches = 0
    /\ lastCompletion = "matchesFailed"
    /\ failedSince = FALSE
    /\ probe = NoProbe

TierNext == \E elo \in ProbeElos : Classify(elo, tierThresholds)

TierSpec == TierInit /\ [][TierNext]_vars

(***************************************************************************)
(* The match history over every participants list: the component once its  *)
(* initial fetches have delivered an empty players list and one match, and *)
(* the user moving between the tabs.                                       *)
(***************************************************************************)
\* has_won of the participants of a match, in the order delivered
WinLists == UNION {[1..n -> BOOLEAN] : n \in 0..MaxParticipants}

\* the body of a matches response with one match; a participant's id is
\* its place in the delivered list
MatchResponse(wins) ==
    << [id |-> 1,
        participants |-> [i \in DOMAIN wins |-> [id |-> i, has_won |-> wins[i]]]] >>

MatchInit ==
    /\ players = <<>>
    /\ \E wins \in WinLists : matches = MatchResponse(wins)
    /\ activeTab = "rankings"
    /\ loading = FALSE
    /\ error = Null
    /\ lastUpdated = Date(1)
    /\ refreshing = FALSE
    /\ countdown = CountdownStart
    /\ phase = "mounted"
    /\ refreshes = 0
    /\ pendingPlayers = {}
    /\ pendingMatches = 0
    /\ lastCompletion = "matchesOk"
    /\ failedSince = FALSE
    /\ lastResponse = <<>>
    /\ probe = NoProbe

MatchNext == \E tab \in Tabs : SetActiveTab(tab)

MatchSpec == MatchInit /\ [][MatchNext]_vars

(***************************************************************************)
(* The statistics over every player record: the component mounting and its *)
(* initial players fetch delivering one player whose counters are each     *)
(* missing or a number.                                                    *)
(***************************************************************************)
CounterFields == {"total_wins", "total_losses", "total_kos", "total_falls",
                  "total_sds"}

\* the counters of a record: any of them missing, the others 0..MaxCount
CounterRecords == UNION {[fields -> 0..MaxCount] : fields \in SUBSET CounterFields}

\* the response body with one player carrying these counters
StatsResponse(counters) ==
    << [f \in DOMAIN counters \cup {"id", "elo"} |->
           IF f = "id" THEN 1 ELSE IF f = "elo" THEN 1500 ELSE counters[f]] >>

StatsNext ==
    \/ Mount
    \/ \E f \in pendingPlayers, counters \in CounterRecords :
          PlayersFetchSucceeds(f, StatsResponse(counters), "")

StatsSpec == Init /\ [][StatsNext]_vars

(***************************************************************************)
(* Overlapping background refreshes: the component once its initial        *)
(* fetches have succeeded and the refresh timer has fired, the players     *)
(* fetch and the matches fetch of that refresh still in flight. refreshes  *)
(* counts the firings from this state on.                                  *)
(***************************************************************************)
OverlapInit ==
    /\ \E data \in PlayerResponses :
          /\ lastResponse = data
          /\ players = playersWithMatches(data)
    /\ matches = <<>>
    /\ activeTab = "rankings"
    /\ loading = FALSE
    /\ error = Null
    /\ lastUpdated = Date(1)
    /\ refreshing = TRUE
    /\ countdown = CountdownStart
    /\ phase = "mounted"
    /\ refreshes = 0
    /\ failedSince = FALSE
    /\ pendingPlayers = {PlayersFetch(0, TRUE)}
    /\ pendingMatches = 1
    /\ lastCompletion = "matchesOk"
    /\ probe = NoProbe

OverlapNext ==
    \/ RefreshTimerFires
    \/ CountdownTick
    \/ Unmount
    \/ \E f \in pendingPlayers, data \in PlayerResponses, hash \in Hashes :
          PlayersFetchSucceeds(f, data, hash)
    \/ \E f \in pendingPlayers : PlayersFetchFails(f)
    \/ \E data \in MatchResponses : MatchesFetchSucceeds(data)
    \/ MatchesFetchFails
    \/ \E tab \in Tabs : SetActiveTab(tab)
    \/ handlePlayerClick
    \/ DismissError

OverlapSpec == OverlapInit /\ [][OverlapNext]_vars

(***************************************************************************)
(* getTier over arbitrary thresholds, ordered or not.                      *)
(***************************************************************************)
ThresholdValues == {900, 1500, 2100}

ThresholdSets == [{"S", "A", "B", "C", "D"} -> ThresholdValues]

GetTierNext == \E elo \in ProbeElos, thresholds \in ThresholdSets :
                  Classify(elo, thresholds)

GetTierSpec == Init /\ [][GetTierNext]_vars

(***************************************************************************)
(* Steps, told from the history variables.                                 *)
(***************************************************************************)
\* call f of fetchPlayers leaves the calls in flight
Completes(f) == f \in pendingPlayers /\ pendingPlayers' = pendingPlayers \ {f}

\* a background call f of fetchPlayers fails while the component is mounted
RefreshFailsStep(f) ==
    phase = "mounted" /\ f.bg /\ Completes(f) /\ lastCompletion' = "refreshFailed"

\* a call of fetchPlayers succeeds while the component is mounted
PlayersOkStep ==
    /\ phase = "mounted"
    /\ \E f \in pendingPlayers : Completes(f)
    /\ lastCompletion' \in {"initialOk", "refreshOk"}

\* a call of fetchMatches fails while the component is mounted
MatchesFailStep ==
    /\ phase = "mounted"
    /\ pendingMatches' = pendingMatches - 1
    /\ lastCompletion' = "matchesFailed"

\* a call of fetchMatches succeeds while the component is mounted
MatchesOkStep ==
    /\ phase = "mounted"
    /\ pendingMatches' = pendingMatches - 1
    /\ lastCompletion' = "matchesOk"

\* where player p stands in list
PositionIn(list, p) == CHOOSE k \in DOMAIN list : list[k] = p

HasWon(p) == p.has_won

HasLost(p) == ~p.has_won

\* the winners of list in their order, then the others in theirs
WinnersFirst(list) == SelectSeq(list, HasWon) \o SelectSeq(list, HasLost)

\* a call of fetchPlayers fails while the component is mounted
PlayersFailStep ==
    /\ phase = "mounted"
    /\ \E f \in pendingPlayers : Completes(f)
    /\ lastCompletion' \in {"initialFailed", "refreshFailed"}

\* the refresh timer fires
RefreshStep == refreshes' = refreshes + 1

\* the same matches, the participants of each in some order
SameMatches(a, b) ==
    /\ Len(a) = Len(b)
    /\ \A m \in DOMAIN a :
          /\ a[m].id = b[m].id
          /\ {a[m].participants[k] : k \in DOMAIN a[m].participants}
                 = {b[m].participants[k] : k \in DOMAIN b[m].participants}

\* the call of fetchPlayers made by the mount effect is in flight
InitialPending == \E f \in pendingPlayers : ~f.bg

\* a background call of fetchPlayers is in flight
BackgroundPending == \E f \in pendingPlayers : f.bg

ScenarioPlayers == playersWithMatches(PopulationResponse(ScenarioElos))

RankedTiers == <<"S", "A", "B", "C", "D">>

(***************************************************************************)
(* Claims                                                                  *)
(***************************************************************************)

\* C1: for every non-empty population with integer ELO values, zero and
\* negative ones included, the thresholds computed from the ELO-descending
\* list satisfy S >= A >= B >= C >= D.
C1_ThresholdsNonIncreasing ==
    players # <<>> =>
        /\ tierThresholds.S >= tierThresholds.A
        /\ tierThresholds.A >= tierThresholds.B
        /\ tierThresholds.B >= tierThresholds.C
        /\ tierThresholds.C >= tierThresholds.D

\* C2: for every non-empty population, every player is given exactly one of
\* the six tiers by getTier with the thresholds of that population, and the
\* player at index 0 of the ranking is classified S.
C2_OneTierEachTopIsS ==
    players # <<>> =>
        /\ \A i \in DOMAIN sortedPlayers :
              Cardinality({t \in Tiers :
                  getTier(sortedPlayers[i].elo, tierThresholds) = t}) = 1
        /\ getTier(sortedPlayers[1].elo, tierThresholds) = "S"

\* C3: for every non-empty population of size N, S is the elo at index 0 and
\* A, B, C, D are the elos at the indexes min(N-1, floor(0.15 N)),
\* min(N-1, floor(0.30 N)), min(N-1, floor(0.50 N)), min(N-1, floor(0.75 N))
\* of the ranking: every threshold is the ELO of an actual player.
C3_ThresholdsArePlayersElos ==
    players # <<>> =>
        LET N == Len(sortedPlayers)
            EloAt(hundredths) ==
                sortedPlayers[Min(N - 1, (hundredths * N) \div 100) + 1].elo
        IN  /\ tierThresholds.S = sortedPlayers[1].elo
            /\ tierThresholds.A = EloAt(15)
            /\ tierThresholds.B = EloAt(30)
            /\ tierThresholds.C = EloAt(50)
            /\ tierThresholds.D = EloAt(75)

\* C4: for an empty population the thresholds are exactly the fixed
\* defaults S=2000, A=1800, B=1600, C=1400, D=1200.
C4_EmptyPopulationDefaults ==
    players = <<>> =>
        tierThresholds = [S |-> 2000, A |-> 1800, B |-> 1600, C |-> 1400, D |-> 1200]

\* the population is empty and getTier has been called with its thresholds
C4_Witness ==
    /\ players = <<>>
    /\ probe # NoProbe
    /\ probe.thresholds = tierThresholds
    /\ probe.thresholds.S = 2000

\* C5: for every elo and every threshold set, getTier returns the highest
\* tier, in the order S > A > B > C > D, whose threshold is less than or
\* equal to elo, and E exactly when elo is below all five thresholds.
C5_HighestTierMet ==
    probe # NoProbe =>
        LET met == {i \in 1..5 : probe.thresholds[RankedTiers[i]] <= probe.elo}
        IN  /\ (met = {}) <=> (probe.tier = "E")
            /\ met # {} =>
                  probe.tier = RankedTiers[CHOOSE i \in met : \A j \in met : i <= j]

\* getTier has been called with thresholds that are not ordered, and a
\* threshold of a lower tier was the first one met
C5_Witness ==
    /\ probe # NoProbe
    /\ probe.thresholds.S > probe.elo
    /\ probe.thresholds.D < probe.thresholds.C
    /\ probe.thresholds.C > probe.thresholds.B
    /\ probe.tier = "B"

\* C6 as stated: with the thresholds of the ten-player scenario (A=1700,
\* B=1300, C=900, D=500), ELO 1000 is classified D.
C6_ScenarioClassifiesD ==
    (players = ScenarioPlayers /\ probe # NoProbe /\ probe.elo = 1000) =>
        /\ probe.thresholds.A = 1700
        /\ probe.thresholds.B = 1300
        /\ probe.thresholds.C = 900
        /\ probe.thresholds.D = 500
        /\ probe.tier = "D"

\* C6 as amended: with the thresholds of the ten-player scenario (A=1700,
\* B=1300, C=900, D=500), ELO 1000 is classified C, since 1000 >= 900.
C6_ScenarioClassifiesC ==
    (players = ScenarioPlayers /\ probe # NoProbe /\ probe.elo = 1000) =>
        /\ probe.thresholds.A = 1700
        /\ probe.thresholds.B = 1300
        /\ probe.thresholds.C = 900
        /\ probe.thresholds.D = 500
        /\ probe.tier = "C"

\* the scenario's population is displayed and ELO 1000 has been classified
C6_Witness ==
    /\ players = ScenarioPlayers
    /\ probe # NoProbe
    /\ probe.elo = 1000
    /\ probe.thresholds = tierThresholds

\* C7 as stated: when a background players fetch fails, the players list
\* and lastUpdated are what they were before that fetch started, and error
\* is non-null.
C7_FailedRefreshKeepsListSinceStart ==
    [][\A f \in pendingPlayers :
          RefreshFailsStep(f) =>
              /\ players' = f.startPlayers
              /\ lastUpdated' = f.startLastUpdated
              /\ error' # Null]_vars

\* C7 as amended: when a background players fetch fails, the players list
\* and lastUpdated are left as they were just before the failure was
\* handled, and error is non-null; they are what they were before that fetch
\* started whenever no other players fetch succeeded in between (lastUpdated
\* still has its value from the start of the fetch).
C7_FailedRefreshKeepsList ==
    [][\A f \in pendingPlayers :
          RefreshFailsStep(f) =>
              /\ players' = players
              /\ lastUpdated' = lastUpdated
              /\ error' # Null
              /\ lastUpdated = f.startLastUpdated =>
                    /\ players' = f.startPlayers
                    /\ lastUpdated' = f.startLastUpdated]_vars

\* a background fetch has failed with a fetched list on display
C7_Witness ==
    /\ phase = "mounted"
    /\ lastCompletion = "refreshFailed"
    /\ error # Null
    /\ players # <<>>

\* C8: once a players fetch has failed, the next players fetch to succeed
\* leaves error null and the players list equal to its response's data.
C8_SuccessAfterFailureClearsError ==
    [][(failedSince /\ PlayersOkStep) =>
          /\ error' = Null
          /\ \E data \in PlayerResponses : players' = playersWithMatches(data)]_vars

\* C9: a failed matches fetch leaves error, players, matches, lastUpdated,
\* loading, refreshing and countdown unchanged.
C9_FailedMatchesFetchChangesNothing ==
    [][MatchesFailStep =>
          UNCHANGED <<error, players, matches, lastUpdated, loading,
                      refreshing, countdown>>]_vars

\* a matches fetch has failed with an earlier match list in place
C9_Witness ==
    /\ phase = "mounted"
    /\ lastCompletion = "matchesFailed"
    /\ matches # <<>>

\* C10: whenever a players fetch completes successfully, the countdown is
\* 30 at that moment.
C10_SuccessResetsCountdown ==
    [][PlayersOkStep => countdown' = CountdownStart]_vars

\* C11: once the view is unmounted no players or matches fetch is started
\* any more (no timer fires) and the countdown keeps its value.
C11_NoTimerAfterUnmount ==
    [][phase = "unmounted" =>
          /\ phase' = "unmounted"
          /\ refreshes' = refreshes
          /\ pendingPlayers' \subseteq pendingPlayers
          /\ pendingMatches' <= pendingMatches
          /\ countdown' = countdown]_vars

\* the view was unmounted after both timers had fired, the countdown
\* mid-cycle and fetches still in flight
C11_Witness ==
    /\ phase = "unmounted"
    /\ refreshes >= 1
    /\ countdown < CountdownStart
    /\ pendingPlayers # {}
    /\ pendingMatches > 0

\* C12: a players response that arrives while the component is mounted is
\* applied whatever the order the calls were made in: after it, the players
\* list is the data of that response, also when another response was
\* applied while its call was in flight.
C12_LastArrivalWins ==
    [][PlayersOkStep => players' = playersWithMatches(lastResponse')]_vars

\* the initial call, made first, has succeeded after a background call
\* made while it was in flight had succeeded
C12_Witness ==
    /\ phase = "mounted"
    /\ lastCompletion = "initialOk"
    /\ refreshes >= 1
    /\ lastUpdated # Null
    /\ lastUpdated.time >= 2
    /\ players = playersWithMatches(lastResponse)

\* C13: loading and refreshing are never both true.
C13_LoadingRefreshingExclusive == ~(loading /\ refreshing)

\* C14: rendering never changes the model: only a players response changes
\* the players list, only a matches response changes the matches list, and
\* what a matches response leaves in the state is its body, participants in
\* the order delivered.
C14_RenderLeavesModel ==
    [][/\ ~PlayersOkStep => players' = players
       /\ MatchesOkStep => matches' \in MatchResponses
       /\ ~MatchesOkStep => matches' = matches]_vars

\* C16: the ranking is a permutation of the players list, non-increasing by
\* elo, players of equal elo in the order they have in the players list, and
\* the rank shown for a player is its position in the ranking counted from 1.
C16_RankingSortedStable ==
    LET n == Len(players)
        ranking == sortedPlayers
    IN  /\ Len(ranking) = n
        /\ \A i \in 1..n : \E k \in 1..n : ranking[k] = players[i]
        /\ \A k, l \in 1..n : ranking[k] = ranking[l] => k = l
        /\ \A k \in 1..(n - 1) : ranking[k].elo >= ranking[k + 1].elo
        /\ \A i, j \in 1..n :
              (i < j /\ players[i].elo = players[j].elo) =>
                  PositionIn(ranking, players[i]) < PositionIn(ranking, players[j])
        /\ \A k \in 1..n : rankOf(k - 1) = k

\* a population delivered out of order, two of its players tied, ranked
C16_Witness ==
    /\ Len(players) >= 3
    /\ \E i, j \in DOMAIN players : i < j /\ players[i].elo = players[j].elo
    /\ \E i, j \in DOMAIN players : i < j /\ players[i].elo < players[j].elo
    /\ sortedPlayers # players

\* C17: the buckets partition the ranking: every ranked player is in
\* exactly one bucket, exactly once; every player of a bucket is a ranked
\* player; and the players of a bucket stand in the ranking's order.
C17_BucketsPartitionRanking ==
    LET ranking == sortedPlayers
        buckets == tierList
    IN  /\ DOMAIN buckets = Tiers
        /\ \A k \in DOMAIN ranking :
              Cardinality({t \in Tiers :
                              \E i \in DOMAIN buckets[t] :
                                  buckets[t][i] = ranking[k]}) = 1
        /\ Len(buckets["S"]) + Len(buckets["A"]) + Len(buckets["B"])
              + Len(buckets["C"]) + Len(buckets["D"]) + Len(buckets["E"])
              = Len(ranking)
        /\ \A t \in Tiers :
              /\ \A i \in DOMAIN buckets[t] :
                    \E k \in DOMAIN ranking : ranking[k] = buckets[t][i]
              /\ \A i, j \in DOMAIN buckets[t] :
                    i < j => PositionIn(ranking, buckets[t][i])
                                 < PositionIn(ranking, buckets[t][j])

\* a population bucketed into three tiers or more, one of them holding
\* several players and one of them E
C17_Witness ==
    /\ Cardinality({t \in Tiers : tierList[t] # <<>>}) >= 3
    /\ \E t \in Tiers : Len(tierList[t]) >= 2
    /\ tierList["E"] # <<>>

\* C18: the match history shows the participants of every match winners
\* first, the winners in their delivered order and the others in theirs,
\* whatever the number of winners.
C18_WinnersFirstStable ==
    [][activeTab' = "matches" =>
          /\ Len(matches') = Len(matches)
          /\ \A m \in DOMAIN matches :
                matches'[m].participants = WinnersFirst(matches[m].participants)]_vars

\* the scenario's match on display: delivered as id 1 lost, id 2 won,
\* id 3 lost
C18_Witness ==
    /\ activeTab = "matches"
    /\ Len(matches) = 1
    /\ matches[1].participants = << [id |-> 2, has_won |-> TRUE],
                                    [id |-> 1, has_won |-> FALSE],
                                    [id |-> 3, has_won |-> FALSE] >>

\* C19: the matches count of every fetched player is a number, the sum of
\* total_wins and total_losses, each taken as 0 when missing.
C19_MatchesIsWinsPlusLosses ==
    \A i \in DOMAIN players :
        LET wins == IF "total_wins" \in DOMAIN players[i]
                    THEN players[i].total_wins ELSE 0
            losses == IF "total_losses" \in DOMAIN players[i]
                      THEN players[i].total_losses ELSE 0
        IN  /\ "matches" \in DOMAIN players[i]
            /\ players[i].matches \in Nat
            /\ players[i].matches = wins + losses

\* a fetched player with no total_wins and some losses
C19_Witness ==
    /\ lastCompletion = "initialOk"
    /\ \E i \in DOMAIN players :
          /\ "total_wins" \notin DOMAIN players[i]
          /\ "total_losses" \in DOMAIN players[i]
          /\ players[i].total_losses > 0
          /\ players[i].matches = players[i].total_losses

\* C20: the win rate shown for every player is 0.0 when total_wins +
\* total_losses (missing taken as 0) is 0, and otherwise the percentage
\* 100 * total_wins / (total_wins + total_losses) to the nearest tenth; no
\* division by 0 is performed to compute it.
C20_WinRate ==
    \A i \in DOMAIN players :
        LET wins == FieldOrZero(players[i], "total_wins")
            losses == FieldOrZero(players[i], "total_losses")
            rate == winRate(players[i])
        IN  /\ \A d \in DOMAIN rate.divisors : rate.divisors[d] # 0
            /\ rate.value # NotFinite
            /\ rate.value.digits = 1
            /\ IF wins + losses > 0
               THEN LET diff == rate.value.scaled * (wins + losses) - 1000 * wins
                    IN  /\ 2 * diff <= wins + losses
                        /\ 2 * diff >= -(wins + losses)
               ELSE rate.value.scaled = 0

\* a fetched player with wins and losses, its win rate strictly between 0
\* and 100
C20_Witness ==
    /\ lastCompletion = "initialOk"
    /\ \E i \in DOMAIN players :
          /\ FieldOrZero(players[i], "total_wins") > 0
          /\ FieldOrZero(players[i], "total_losses") > 0
          /\ winRate(players[i]).divisors # <<>>
          /\ winRate(players[i]).value.scaled \in 1..999

\* C21: the K/D ratio shown for every player is 0.00 unless total_kos > 0
\* and total_falls + total_sds > 0 (missing taken as 0), and is then
\* total_kos / (total_falls + total_sds) to the nearest hundredth; no
\* division by 0 is performed to compute it.
C21_KdRatio ==
    \A i \in DOMAIN players :
        LET kos == FieldOrZero(players[i], "total_kos")
            deaths == FieldOrZero(players[i], "total_falls")
                          + FieldOrZero(players[i], "total_sds")
            ratio == kdRatio(players[i])
        IN  /\ \A d \in DOMAIN ratio.divisors : ratio.divisors[d] # 0
            /\ ratio.value # NotFinite
            /\ ratio.value.digits = 2
            /\ IF kos > 0 /\ deaths > 0
               THEN LET diff == ratio.value.scaled * deaths - 100 * kos
                    IN  /\ 2 * diff <= deaths
                        /\ 2 * diff >= -deaths
               ELSE ratio.value.scaled = 0

\* a fetched player with knockouts, no falls and some self-destructs, its
\* K/D ratio not 0
C21_Witness ==
    /\ lastCompletion = "initialOk"
    /\ \E i \in DOMAIN players :
          /\ FieldOrZero(players[i], "total_kos") > 0
          /\ FieldOrZero(players[i], "total_falls") = 0
          /\ FieldOrZero(players[i], "total_sds") > 0
          /\ kdRatio(players[i]).divisors # <<>>
          /\ kdRatio(players[i]).value.scaled > 0

\* C22: in a population of distinct non-zero ELO values of which the
\* documented percentages are whole numbers of players, tier S holds 15 % of
\* the players, A 15 %, B 20 %, C 25 %, D 15 % and E 10 %.
C22_TierSizesAsDocumented ==
    LET n == Len(players)
        buckets == tierList
    IN  (/\ n > 0
         /\ n % 20 = 0
         /\ \A i, j \in 1..n : i # j => players[i].elo # players[j].elo
         /\ \A i \in 1..n : players[i].elo # 0)
        => /\ 100 * Len(buckets["S"]) = 15 * n
           /\ 100 * Len(buckets["A"]) = 15 * n
           /\ 100 * Len(buckets["B"]) = 20 * n
           /\ 100 * Len(buckets["C"]) = 25 * n
           /\ 100 * Len(buckets["D"]) = 15 * n
           /\ 100 * Len(buckets["E"]) = 10 * n

C24_LoadingUntilInitialCompletes ==
    /\ [](phase = "created" => loading)
    /\ [](phase = "mounted" => (loading <=> InitialPending))
    /\ [][~loading => ~loading']_vars

\* the initial fetch has failed and a background refresh is in flight,
\* loading false
C24_Witness ==
    /\ phase = "mounted"
    /\ lastCompletion = "initialFailed"
    /\ BackgroundPending
    /\ refreshing
    /\ ~loading

\* C25: while the component is mounted, refreshing is true exactly when a
\* background players fetch is in flight.
C25_RefreshingIffBackgroundPending ==
    phase = "mounted" => (refreshing <=> BackgroundPending)

C29_BucketsConcatenateToRanking ==
    ConcatBuckets(tierList, TierOrder) = sortedPlayers

\* the twenty-player population in its six buckets
C29_Witness ==
    /\ Len(players) = 20
    /\ \A t \in Tiers : tierList[t] # <<>>
    /\ Len(ConcatBuckets(tierList, TierOrder)) = 20

\* C30: a single player has all five thresholds equal to its ELO and is
\* classified S.
C30_SinglePlayerIsS ==
    Len(players) = 1 =>
        /\ \A t \in {"S", "A", "B", "C", "D"} : tierThresholds[t] = players[1].elo
        /\ getTier(players[1].elo, tierThresholds) = "S"

====
